---- MODULE Spec2Model ----
\* The `load` command of cmd/load.go: the layered stream composer (open), the
\* conversion cache (convert), the stream's Close, and the command body (load,
\* statBak), run by one or more concurrent invocations over one filesystem and
\* one metadata engine.
EXTENDS Integers, Sequences, FiniteSets, TLC

\* ---------------------------------------------------------------- bounds
\* Invocations of the command one process slot runs one after the other.
MaxRuns == 2
\* Process slots that may run the command concurrently.
NumProcs == 2

Procs == 1..NumProcs

\* ---------------------------------------------------------------- strings
\* A path is a sequence of one-character strings, so that the suffix test and
\* the slice of convert are computed, not assumed.
GzSuffix == <<".", "g", "z">>
ZstdSuffix == <<".", "z", "s", "t", "d">>

PathGz == <<"a", ".", "g", "z">>
PathZstd == <<"a", ".", "z", "s", "t", "d">>
PathBin == <<"a", ".", "b">>
PathBare == <<"a">>
PathDir == <<"d", ".", "d", "/", "a">>
MetaUri == <<"m">>
Stdin == <<"S", "T", "D", "I", "N">>

SrcPaths == {PathGz, PathZstd, PathBin, PathBare, PathDir}

\* strings.HasSuffix
HasSuffix(s, suffix) ==
    /\ Len(s) >= Len(suffix)
    /\ SubSeq(s, Len(s) - Len(suffix) + 1, Len(s)) = suffix

\* strings.LastIndex for a one-character needle: 0-based, -1 when absent.
LastIndex(s, c) ==
    LET hits == {i \in 1..Len(s) : s[i] = c}
    IN IF hits = {} THEN -1
       ELSE (CHOOSE i \in hits : \A j \in hits : j <= i) - 1

\* ---------------------------------------------------------------- files
\* A file's bytes are the layers that encode the payload, outermost first, then
\* the state of the payload: "full" (all of it), "part" (a prefix of it),
\* "none" (no byte). "enc" is the RSA envelope, "gz" a gzip stream, "gzbad" a
\* gzip stream with a valid header and a corrupt body, "zstd" a zstd stream.
Absent == <<"absent">>
Plain == <<"full">>
Partial == <<"part">>
Empty == <<"none">>

\* utils.Exists
Exists(f, path) == path \in DOMAIN f /\ f[path] # Absent

\* ---------------------------------------------------------------- keys
\* --encrypt-rsa-key: "" (not given) or the name of a PEM text that
\* loadEncrypt returns.
NoKey == ""
Keys == {"pem", "pemEncrypted", "pemProcTypeOnly", "notPem"}
PassphraseSet == "secret"
AES256GCM_RSA == "aes256gcm-rsa"
CHACHA20_RSA == "chacha20-rsa"
Algos == {AES256GCM_RSA, CHACHA20_RSA, "rot13"}

\* pem.Decode finds a block
PemBlock(key) == key \in {"pem", "pemEncrypted", "pemProcTypeOnly"}

\* strings.Contains(block.Headers["Proc-Type"], "ENCRYPTED")
ProcTypeEncrypted(key) == key \in {"pemEncrypted", "pemProcTypeOnly"}

\* x509.IsEncryptedPEMBlock: the block carries a DEK-Info header
IsEncryptedPEMBlock(key) == key = "pemEncrypted"

\* object.ParseRsaPrivateKeyFromPem succeeds
ParseRsaOk(key, passphrase) ==
    \/ key = "pem"
    \/ key = "pemEncrypted" /\ passphrase = PassphraseSet

\* object.NewDataEncryptor knows the algorithm
AlgoKnown(algo) == algo \in {AES256GCM_RSA, CHACHA20_RSA}

\* ---------------------------------------------------------------- bytes
\* A file is read and written in two chunks. Besides "full", "part" (the
\* first chunk only) and "none", a file can be holed: a writer whose file was
\* emptied under it goes on at its own offset, which leaves the first chunk
\* zero and the second written.
Holed == <<"hole">>

Fill(c) == c[Len(c)]

Layers(c) == SubSeq(c, 1, Len(c) - 1)

\* What a read at the first, and at the second, chunk of bytes c meets.
RawChunk1(c) ==
    IF Fill(c) \in {"part", "full"} THEN "data"
    ELSE IF Fill(c) = "hole" THEN "zero" ELSE "eof"

RawChunk2(c) == IF Fill(c) \in {"hole", "full"} THEN "data" ELSE "eof"

\* os.File.Write of the first chunk, then of the second, each at the writer's
\* own offset, into a file that now holds cur.
WriteChunk1(cur, layers) ==
    IF cur = Absent THEN Absent
    ELSE IF Fill(cur) \in {"none", "part"} THEN layers \o <<"part">>
    ELSE layers \o <<"full">>

WriteChunk2(cur, layers) ==
    IF cur = Absent THEN Absent
    ELSE IF Fill(cur) \in {"none", "hole"} THEN Holed
    ELSE layers \o <<"full">>

\* ---------------------------------------------------------------- streams
\* The names of the streams and files one invocation can hold: convert's base
\* stream and compression layer, convert's target file, statBak's file, load's
\* base stream and compression layer.
Handles == {"cfp", "cgz", "w", "sfp", "lfp", "lgz"}

\* A handle is "none" (never opened), "open", "closed" (closed once) or
\* "closed2" (closed again after it was closed).
NoHandles == [h \in Handles |-> "none"]

OpenHandles(hs, opened) == [h \in Handles |-> IF h \in opened THEN "open" ELSE hs[h]]

CloseHandle(hs, h) ==
    IF h \notin Handles THEN hs
    ELSE [hs EXCEPT ![h] = IF @ = "open" THEN "closed"
                           ELSE IF @ = "closed" THEN "closed2" ELSE @]

NoChunk == [st |-> "none", layers |-> <<>>]

\* type reader struct { encryptR, compressR }, with what the model needs to
\* know of the two layers: enc (the base stream is the decrypted object the
\* accessor returned), comp (the compression layer), path (the file an
\* os.File base stream reads), data (the decrypted object; for an os.File the
\* bytes at open, which it still reads once the path is unlinked), got (the
\* first chunk read), readErr (a Read of the compression layer has failed).
NoReader ==
    [encryptR |-> "nil", compressR |-> "nil", enc |-> FALSE, comp |-> "none",
     path |-> <<>>, data |-> Absent, got |-> NoChunk, readErr |-> FALSE]

StdinReader(data) ==
    [encryptR |-> "stdin", compressR |-> "stdin", enc |-> FALSE, comp |-> "none",
     path |-> Stdin, data |-> data, got |-> NoChunk, readErr |-> FALSE]

\* The bytes under the base stream at the moment of a Read.
RawNow(f, r) ==
    IF r.enc \/ r.path \notin DOMAIN f THEN r.data
    ELSE IF f[r.path] = Absent THEN r.data
    ELSE f[r.path]

\* reader.Read of the first chunk, over the bytes c under the base stream:
\* "data" (with the layers still around the payload), "zero", "eof" or "err".
Read1(r, c) ==
    LET raw == RawChunk1(c)
    IN IF r.comp = "none"
       THEN [st |-> raw, layers |-> IF raw = "data" THEN Layers(c) ELSE <<>>]
       ELSE IF r.comp = "gz"
       THEN IF raw = "data" /\ Head(c) \in {"gz", "gzbad"}
            THEN [st |-> "data", layers |-> Tail(Layers(c))]
            ELSE [st |-> "err", layers |-> <<>>]
       ELSE IF raw = "data" /\ Head(c) = "zstd"
            THEN [st |-> "data", layers |-> Tail(Layers(c))]
            ELSE [st |-> "err", layers |-> <<>>]

\* reader.Read of the second chunk, to the end of the stream.
Read2(r, c) ==
    LET raw == RawChunk2(c)
    IN IF r.comp = "none" THEN raw
       ELSE IF r.comp = "gz"
       THEN IF raw = "data" /\ Head(c) = "gz" THEN "data" ELSE "err"
       ELSE IF raw = "data" /\ Head(c) = "zstd" THEN "data" ELSE "err"

\* The bytes a reader took in over both reads.
Assembled(first, second) ==
    IF first.st = "zero" THEN Holed
    ELSE IF first.st # "data" THEN Empty
    ELSE IF second = "data" THEN first.layers \o <<"full">>
    ELSE first.layers \o <<"part">>

\* compressR.Close() returns an error: gzip.Reader.Close hands back the error
\* its decompressor met in an earlier Read; the zstd reader's Close frees its
\* stream and reports no earlier Read error.
CompressCloseErr(r) == r.comp = "gz" /\ r.readErr

\* func (r *reader) Close() error: the handles after the call.
ReaderClose(hs, r) ==
    LET h1 == CloseHandle(hs, r.compressR)
    IN IF CompressCloseErr(r) THEN h1
       ELSE IF r.encryptR # r.compressR THEN CloseHandle(h1, r.encryptR)
       ELSE h1

\* ---------------------------------------------------------------- open
\* The passphrase guard left out: the key goes straight to the parser.
PassphraseNeverRequired(key, passphrase) == FALSE

\* open, lines 114-120: the passphrase guard.
PassphraseRequired(key, passphrase) ==
    /\ passphrase = ""
    /\ PemBlock(key)
    /\ ProcTypeEncrypted(key)
    /\ IsEncryptedPEMBlock(key)

\* open, lines 112-128: the key is read, guarded, parsed, and the encryptor
\* built. ops lists the steps taken, in order.
OpenKeyStage(key, algo, passphrase) ==
    LET ops0 == <<"getenv", "loadEncrypt">>
        ops1 == IF passphrase = "" THEN ops0 \o <<"pemDecode">> ELSE ops0
    IN IF PassphraseRequired(key, passphrase)
       THEN [err |-> "passphraseRequired", ops |-> ops1]
       ELSE IF ~ParseRsaOk(key, passphrase)
       THEN [err |-> "parseRsa", ops |-> ops1 \o <<"parseKey">>]
       ELSE IF ~AlgoKnown(algo)
       THEN [err |-> "unsupportedAlgo", ops |-> ops1 \o <<"parseKey", "newEncryptor">>]
       ELSE [err |-> "", ops |-> ops1 \o <<"parseKey", "newEncryptor">>]

\* open, lines 111-131, with a key: up to and with os.Stat(src).
OpenStat(f, src, key, algo, passphrase) ==
    LET ks == OpenKeyStage(key, algo, passphrase)
    IN IF ks.err # "" THEN ks
       ELSE IF ~Exists(f, src)
       THEN [err |-> "statErr", ops |-> ks.ops \o <<"stat">>]
       ELSE [err |-> "", ops |-> ks.ops \o <<"stat">>]

\* open, lines 132-148: the base stream fp. With a key, the decrypting
\* accessor fetches and decrypts the whole object; ops are the steps open took
\* before. Without one, os.Open.
OpenFetch(f, src, key, ops) ==
    IF key # NoKey
    THEN LET all == ops \o <<"abs", "createStorage", "get">>
         IN IF ~Exists(f, src)
            THEN [err |-> "getErr", ops |-> all, enc |-> TRUE, data |-> Absent]
            ELSE IF Head(f[src]) # "enc"
            THEN [err |-> "decryptErr", ops |-> all, enc |-> TRUE, data |-> Absent]
            ELSE [err |-> "", ops |-> all, enc |-> TRUE, data |-> Tail(f[src])]
    ELSE IF ~Exists(f, src)
    THEN [err |-> "openErr", ops |-> <<"osOpen">>, enc |-> FALSE, data |-> Absent]
    ELSE [err |-> "", ops |-> <<"osOpen">>, enc |-> FALSE, data |-> f[src]]

\* open, lines 149-159, after the base stream is open: the compression layer
\* chosen by the suffix; gzip.NewReader reads the header. hb and hc name the
\* base stream and the compression layer; opened are the streams the call has
\* opened when it returns.
OpenCompress(src, base, hb, hc) ==
    LET rdr == [encryptR |-> hb, compressR |-> hc, enc |-> base.enc, comp |-> "none",
                path |-> src, data |-> base.data, got |-> NoChunk, readErr |-> FALSE]
    IN IF HasSuffix(src, GzSuffix)
       THEN IF Head(base.data) \in {"gz", "gzbad"}
            THEN [err |-> "", ops |-> base.ops \o <<"gzipNewReader">>,
                  opened |-> {hb, hc}, rdr |-> [rdr EXCEPT !.comp = "gz"]]
            ELSE [err |-> "gzipHeader", ops |-> base.ops \o <<"gzipNewReader">>,
                  opened |-> {hb}, rdr |-> NoReader]
       ELSE IF HasSuffix(src, ZstdSuffix)
       THEN [err |-> "", ops |-> base.ops \o <<"zstdNewReader">>,
             opened |-> {hb, hc}, rdr |-> [rdr EXCEPT !.comp = "zstd"]]
       ELSE [err |-> "", ops |-> base.ops, opened |-> {hb},
             rdr |-> [rdr EXCEPT !.compressR = hb]]

\* open, lines 132-160: from the base stream to the reader returned.
OpenRest(f, src, key, ops, hb, hc) ==
    LET base == OpenFetch(f, src, key, ops)
    IN IF base.err # ""
       THEN [err |-> base.err, ops |-> base.ops, opened |-> {}, rdr |-> NoReader]
       ELSE OpenCompress(src, base, hb, hc)

\* ---------------------------------------------------------------- convert
\* convert, lines 164-167
IsCompress(path) == HasSuffix(path, GzSuffix) \/ HasSuffix(path, ZstdSuffix)

\* Any extension taken for an encoding: only a path with no dot is plain.
FastPathNoDot(path, key) == key = NoKey /\ ~IsCompress(path) /\ LastIndex(path, ".") < 0

\* convert, line 169: nothing to decode
FastPath(path, key) == key = NoKey /\ ~IsCompress(path)

\* convert, line 173: path[:strings.LastIndex(path, ".")] panics when the
\* path holds no dot (slice bounds out of range [:-1]).
NPathPanics(path) == LastIndex(path, ".") < 0

NPath(path) == SubSeq(path, 1, LastIndex(path, "."))

\* A cache that trusts only a complete plain file.
CacheHitOnlyComplete(f, nPath) == Exists(f, nPath) /\ f[nPath] = Plain

\* convert, line 174: the plain file is there already
CacheHit(f, nPath) == Exists(f, nPath)

\* convert, line 185: os.Create opens with O_RDWR|O_CREATE|O_TRUNC, so an
\* existing file is emptied and the call succeeds.
OsCreate(f, nPath) == [f EXCEPT ![nPath] = Empty]

\* A failed copy that removes its target.
CopyFailedCleanup(f, nPath) == [f EXCEPT ![nPath] = Absent]

\* convert, lines 191-193: io.Copy has failed; the target stays as written.
CopyFailed(f, nPath) == f

\* ---------------------------------------------------------------- state
VARIABLES
    cfg,        \* the command line and environment of the invocations
    active,     \* the process slots that run the command
    fs,         \* the filesystem: path -> bytes, or Absent
    dbFormat,   \* the metadata engine holds a volume format
    pc,         \* where each invocation stands
    run,        \* the number of the invocation a slot is running
    lsrc,       \* load's local src
    cv,         \* convert's locals and result
    rd,         \* the reader the invocation holds (convert's r, load's r)
    hnd,        \* every stream and file of the invocation: none, open, closed
    lops,       \* the steps of load's own call of open
    eng,        \* load's dealings with the metadata engine
    out,        \* what the command returned
    hist        \* the convert results of a slot's earlier invocations

vars == <<cfg, active, fs, dbFormat, pc, run, lsrc, cv, rd, hnd, lops, eng, out, hist>>

NoConvert == [kind |-> "none", path |-> <<>>, err |-> "", nPath |-> <<>>,
              ops |-> <<>>, oops |-> <<>>]

NoEngine == [client |-> FALSE, probe |-> "none", loader |-> "none"]

\* ctx.Args().Get(i), 0-based: "" past the end
ArgsGet(args, i) == IF i + 1 <= Len(args) THEN args[i + 1] ELSE <<>>

\* The file a command line names as its backup.
ArgLists ==
    {<<f>> : f \in SrcPaths} \cup {<<MetaUri, f>> : f \in SrcPaths} \cup {<<MetaUri>>}

AllPaths == SrcPaths \cup {MetaUri, <<>>} \cup {NPath(p) : p \in {q \in SrcPaths : ~NPathPanics(q)}}

SrcContents ==
    {Absent, Plain, <<"gz", "full">>, <<"gzbad", "full">>, <<"zstd", "full">>,
     <<"enc", "full">>, <<"enc", "gz", "full">>}

PlainContents == {Absent, Plain, Partial, <<"enc", "full">>}

\* The backup file of a command line: the last argument when it is a path.
BackupOf(args) == args[Len(args)]

\* Command lines and environments. The algorithm and the passphrase vary only
\* where a key is given; a key that is no usable PEM is tried with the default
\* algorithm only.
Configs ==
    {c \in [key : {NoKey} \cup Keys, passphrase : {"", PassphraseSet}, algo : Algos,
            binary : BOOLEAN, stat : BOOLEAN, args : ArgLists] :
        /\ c.key = NoKey => c.passphrase = "" /\ c.algo = AES256GCM_RSA
        /\ c.key \in {"notPem", "pemProcTypeOnly"} => c.algo = AES256GCM_RSA
        /\ Len(c.args) = 1 /\ c.args # <<MetaUri>> => c.binary /\ c.stat
        /\ c.args = <<MetaUri>> => ~(c.binary /\ c.stat)
        /\ Len(c.args) = 2 /\ c.binary /\ c.stat => c.args[2] = PathGz}

\* The filesystems an invocation can meet: the backup, and possibly a file at
\* the path convert derives from it.
Filesystems(c) ==
    LET src == BackupOf(c.args)
        plain == IF NPathPanics(src) THEN <<>> ELSE NPath(src)
        srcs == IF src = MetaUri \/ (Len(c.args) = 2 /\ c.binary /\ c.stat)
                THEN {Absent} ELSE SrcContents
        plains == IF src = MetaUri \/ ~c.binary \/ NPathPanics(src)
                     \/ (Len(c.args) = 2 /\ c.stat)
                  THEN {Absent} ELSE PlainContents
    IN {[x \in AllPaths |-> IF x = src THEN a ELSE IF x = plain THEN b ELSE Absent] :
            a \in srcs, b \in plains}

InitLocals ==
    /\ pc = [p \in Procs |-> "init"]
    /\ run = [p \in Procs |-> 1]
    /\ lsrc = [p \in Procs |-> <<>>]
    /\ cv = [p \in Procs |-> NoConvert]
    /\ rd = [p \in Procs |-> NoReader]
    /\ hnd = [p \in Procs |-> NoHandles]
    /\ lops = [p \in Procs |-> <<>>]
    /\ eng = [p \in Procs |-> NoEngine]
    /\ out = [p \in Procs |-> ""]
    /\ hist = [p \in Procs |-> <<>>]

\* One slot runs the command, again and again.
Init ==
    /\ cfg \in Configs
    /\ active = {1}
    /\ fs \in Filesystems(cfg)
    /\ dbFormat \in BOOLEAN
    /\ InitLocals

\* Every slot runs the same command line over a compressed backup.
ConcConfigs ==
    {c \in Configs : /\ c.key \in {NoKey, "pem"} /\ c.passphrase = ""
                     /\ c.algo = AES256GCM_RSA
                     /\ c.binary /\ (c.stat <=> Len(c.args) = 1)
                     /\ BackupOf(c.args) \in {PathGz, PathZstd}}

InitConc ==
    /\ cfg \in ConcConfigs
    /\ active = Procs
    /\ fs \in {f \in Filesystems(cfg) : f[BackupOf(cfg.args)] \in
                {Absent, <<"gz", "full">>, <<"gzbad", "full">>, <<"zstd", "full">>,
                 <<"enc", "gz", "full">>}
                /\ f[NPath(BackupOf(cfg.args))] \in {Absent, Plain}}
    /\ dbFormat \in BOOLEAN
    /\ InitLocals

\* ---------------------------------------------------------------- load
\* load, lines 208-213: convert has returned.
AfterConvert(p, res) ==
    /\ cv' = [cv EXCEPT ![p] = res]
    /\ IF res.err # ""
       THEN /\ pc' = [pc EXCEPT ![p] = "done"]
            /\ out' = [out EXCEPT ![p] = res.err]
            /\ lsrc' = [lsrc EXCEPT ![p] = <<>>]
       ELSE /\ pc' = [pc EXCEPT ![p] = IF cfg.stat THEN "stat" ELSE "open"]
            /\ out' = out
            /\ lsrc' = [lsrc EXCEPT ![p] = res.path]

\* load, lines 199-207: the flags are read and src chosen.
Start(p) ==
    /\ p \in active
    /\ pc[p] = "init"
    /\ IF cfg.binary
       THEN /\ lsrc' = [lsrc EXCEPT ![p] =
                           IF cfg.stat THEN ArgsGet(cfg.args, 0) ELSE ArgsGet(cfg.args, 1)]
            /\ pc' = [pc EXCEPT ![p] = "convert"]
       ELSE /\ lsrc' = [lsrc EXCEPT ![p] = ArgsGet(cfg.args, 1)]
            /\ pc' = [pc EXCEPT ![p] = "open"]
    /\ UNCHANGED <<cfg, active, fs, dbFormat, run, cv, rd, hnd, lops, eng, out, hist>>

\* convert, lines 164-177: the fast path, the plain path, the cache check.
ConvertCheck(p) ==
    /\ pc[p] = "convert"
    /\ LET path == lsrc[p]
       IN IF FastPath(path, cfg.key)
          THEN AfterConvert(p, [NoConvert EXCEPT !.kind = "fast", !.path = path])
          ELSE IF NPathPanics(path)
          THEN /\ cv' = [cv EXCEPT ![p] = [NoConvert EXCEPT !.kind = "panic"]]
               /\ pc' = [pc EXCEPT ![p] = "done"]
               /\ out' = [out EXCEPT ![p] = "panic"]
               /\ lsrc' = lsrc
          ELSE IF CacheHit(fs, NPath(path))
          THEN AfterConvert(p, [NoConvert EXCEPT !.kind = "hit", !.path = NPath(path),
                                                 !.nPath = NPath(path),
                                                 !.ops = <<"exists">>])
          ELSE /\ cv' = [cv EXCEPT ![p] = [NoConvert EXCEPT !.kind = "run",
                                                            !.nPath = NPath(path),
                                                            !.ops = <<"exists">>]]
               /\ pc' = [pc EXCEPT ![p] = "cv_open"]
               /\ UNCHANGED <<out, lsrc>>
    /\ UNCHANGED <<cfg, active, fs, dbFormat, run, rd, hnd, lops, eng, hist>>

\* convert, lines 179-183: open, called in state c of the call, has returned o.
ConvertOpened(p, c, o) ==
    LET d == [c EXCEPT !.oops = o.ops]
    IN /\ hnd' = [hnd EXCEPT ![p] = OpenHandles(@, o.opened)]
       /\ IF o.err # ""
          THEN /\ AfterConvert(p, [d EXCEPT !.kind = "openErr", !.err = o.err])
               /\ rd' = rd
          ELSE /\ cv' = [cv EXCEPT ![p] = d]
               /\ rd' = [rd EXCEPT ![p] = o.rdr]
               /\ pc' = [pc EXCEPT ![p] = "cv_create"]
               /\ UNCHANGED <<out, lsrc>>

\* convert, line 179, into open: without a key the whole of open (os.Open and
\* the compression layer over the descriptor); with a key open's lines 111-131,
\* up to os.Stat.
ConvertOpen(p) ==
    /\ pc[p] = "cv_open"
    /\ LET called == [cv[p] EXCEPT !.ops = @ \o <<"open">>]
       IN IF cfg.key = NoKey
          THEN ConvertOpened(p, called,
                             OpenRest(fs, lsrc[p], cfg.key, <<>>, "cfp", "cgz"))
          ELSE LET st == OpenStat(fs, lsrc[p], cfg.key, cfg.algo, cfg.passphrase)
               IN IF st.err # ""
                  THEN ConvertOpened(p, called, [err |-> st.err, ops |-> st.ops,
                                                 opened |-> {}, rdr |-> NoReader])
                  ELSE /\ cv' = [cv EXCEPT ![p] = [called EXCEPT !.oops = st.ops]]
                       /\ pc' = [pc EXCEPT ![p] = "cv_get"]
                       /\ UNCHANGED <<out, lsrc, rd, hnd>>
    /\ UNCHANGED <<cfg, active, fs, dbFormat, run, lops, eng, hist>>

\* open with a key, lines 132-160, called by convert: the object is fetched
\* and decrypted, the compression layer built.
ConvertGet(p) ==
    /\ pc[p] = "cv_get"
    /\ ConvertOpened(p, cv[p], OpenRest(fs, lsrc[p], cfg.key, cv[p].oops, "cfp", "cgz"))
    /\ UNCHANGED <<cfg, active, fs, dbFormat, run, lops, eng, hist>>

\* convert, lines 185-189: the plain file is created; when the directory
\* refuses (writable = FALSE) convert returns and the deferred r.Close runs.
ConvertCreate(p) ==
    /\ pc[p] = "cv_create"
    /\ \E writable \in BOOLEAN :
        IF writable
        THEN /\ fs' = OsCreate(fs, cv[p].nPath)
             /\ hnd' = [hnd EXCEPT ![p] = OpenHandles(@, {"w"})]
             /\ cv' = [cv EXCEPT ![p].ops = @ \o <<"create">>]
             /\ pc' = [pc EXCEPT ![p] = "cv_copy"]
             /\ UNCHANGED <<out, lsrc>>
        ELSE /\ fs' = fs
             /\ hnd' = [hnd EXCEPT ![p] = ReaderClose(@, rd[p])]
             /\ AfterConvert(p, [cv[p] EXCEPT !.kind = "createErr", !.err = "createErr",
                                              !.ops = @ \o <<"create">>])
    /\ UNCHANGED <<cfg, active, dbFormat, run, rd, lops, eng, hist>>

\* convert, lines 191-196, once io.Copy has returned: the deferred w.Close and
\* r.Close run and convert returns.
ConvertReturn(p, r, ok) ==
    LET c == [cv[p] EXCEPT !.ops = IF "copy" \in {@[i] : i \in 1..Len(@)}
                                  THEN @ ELSE @ \o <<"copy">>]
    IN /\ rd' = [rd EXCEPT ![p] = r]
       /\ hnd' = [hnd EXCEPT ![p] = ReaderClose(CloseHandle(@, "w"), r)]
       /\ IF ok
          THEN AfterConvert(p, [c EXCEPT !.kind = "ok", !.path = c.nPath])
          ELSE AfterConvert(p, [c EXCEPT !.kind = "copyErr", !.err = "copyErr"])

\* convert, line 191: io.Copy reads the first chunk and writes it.
ConvertCopy1(p) ==
    /\ pc[p] = "cv_copy"
    /\ LET first == Read1(rd[p], RawNow(fs, rd[p]))
       IN IF first.st = "err"
          THEN /\ fs' = CopyFailed(fs, cv[p].nPath)
               /\ ConvertReturn(p, [rd[p] EXCEPT !.readErr = TRUE], FALSE)
          ELSE IF first.st = "eof"
          THEN /\ fs' = fs
               /\ ConvertReturn(p, rd[p], TRUE)
          ELSE /\ fs' = [fs EXCEPT ![cv[p].nPath] =
                            IF first.st = "zero" THEN Holed
                            ELSE WriteChunk1(@, first.layers)]
               /\ rd' = [rd EXCEPT ![p].got = first]
               /\ cv' = [cv EXCEPT ![p].ops = @ \o <<"copy">>]
               /\ pc' = [pc EXCEPT ![p] = "cv_copy2"]
               /\ UNCHANGED <<hnd, out, lsrc>>
    /\ UNCHANGED <<cfg, active, dbFormat, run, lops, eng, hist>>

\* convert, lines 191-196: io.Copy reads the rest and writes it at its
\* offset, then convert returns.
ConvertCopy2(p) ==
    /\ pc[p] = "cv_copy2"
    /\ LET second == Read2(rd[p], RawNow(fs, rd[p]))
       IN IF second = "err"
          THEN /\ fs' = CopyFailed(fs, cv[p].nPath)
               /\ ConvertReturn(p, [rd[p] EXCEPT !.readErr = TRUE], FALSE)
          ELSE IF second = "eof"
          THEN /\ fs' = fs
               /\ ConvertReturn(p, rd[p], TRUE)
          ELSE /\ fs' = [fs EXCEPT ![cv[p].nPath] = WriteChunk2(@, rd[p].got.layers)]
               /\ ConvertReturn(p, rd[p], TRUE)
    /\ UNCHANGED <<cfg, active, dbFormat, run, lops, eng, hist>>

\* statBak, lines 268-274: os.Open of the file to report on; the descriptor
\* keeps the bytes it was opened on should the path be unlinked.
StatBakOpen(p) ==
    /\ pc[p] = "stat"
    /\ IF ~Exists(fs, lsrc[p])
       THEN /\ out' = [out EXCEPT ![p] = "statOpenErr"]
            /\ pc' = [pc EXCEPT ![p] = "done"]
            /\ UNCHANGED <<hnd, rd>>
       ELSE /\ hnd' = [hnd EXCEPT ![p] = OpenHandles(@, {"sfp"})]
            /\ rd' = [rd EXCEPT ![p] = [NoReader EXCEPT !.path = lsrc[p],
                                                        !.data = fs[lsrc[p]]]]
            /\ pc' = [pc EXCEPT ![p] = "stat_read"]
            /\ out' = out
    /\ UNCHANGED <<cfg, active, fs, dbFormat, run, lsrc, cv, lops, eng, hist>>

\* bak.ReadFooter finds a footer: the end of the file is that of a plain dump.
FooterOk(c) == Layers(c) = <<>> /\ RawChunk2(c) = "data"

\* statBak, lines 274-278, with showBakSummary, lines 288-293: the footer is
\* read from the end of the file as it is now, the report printed, and the
\* deferred fp.Close runs.
StatBakRead(p) ==
    /\ pc[p] = "stat_read"
    /\ out' = [out EXCEPT ![p] = IF FooterOk(RawNow(fs, rd[p])) THEN "report"
                                 ELSE "footerErr"]
    /\ hnd' = [hnd EXCEPT ![p] = CloseHandle(@, "sfp")]
    /\ pc' = [pc EXCEPT ![p] = "done"]
    /\ UNCHANGED <<cfg, active, fs, dbFormat, run, lsrc, cv, rd, lops, eng, hist>>

\* load, lines 223-228: open has returned o.
LoadOpened(p, o) ==
    /\ hnd' = [hnd EXCEPT ![p] = OpenHandles(@, o.opened)]
    /\ lops' = [lops EXCEPT ![p] = o.ops]
    /\ lsrc' = lsrc
    /\ IF o.err # ""
       THEN /\ out' = [out EXCEPT ![p] = o.err]
            /\ pc' = [pc EXCEPT ![p] = "done"]
            /\ rd' = rd
       ELSE /\ out' = out
            /\ pc' = [pc EXCEPT ![p] = "engine"]
            /\ rd' = [rd EXCEPT ![p] = o.rdr]

\* load, lines 216-228: the stream for the loader: standard input when the
\* command line names no file; else open, the whole of it without a key, its
\* lines 111-131 (up to os.Stat) with one.
LoadOpen(p) ==
    /\ pc[p] = "open"
    /\ IF Len(cfg.args) = 1
       THEN /\ \E data \in {Plain, Partial} : rd' = [rd EXCEPT ![p] = StdinReader(data)]
            /\ lsrc' = [lsrc EXCEPT ![p] = Stdin]
            /\ pc' = [pc EXCEPT ![p] = "engine"]
            /\ UNCHANGED <<hnd, lops, out>>
       ELSE IF cfg.key = NoKey
       THEN LoadOpened(p, OpenRest(fs, lsrc[p], cfg.key, <<>>, "lfp", "lgz"))
       ELSE LET st == OpenStat(fs, lsrc[p], cfg.key, cfg.algo, cfg.passphrase)
            IN IF st.err # ""
               THEN LoadOpened(p, [err |-> st.err, ops |-> st.ops, opened |-> {},
                                   rdr |-> NoReader])
               ELSE /\ lops' = [lops EXCEPT ![p] = st.ops]
                    /\ pc' = [pc EXCEPT ![p] = "l_get"]
                    /\ UNCHANGED <<hnd, out, rd, lsrc>>
    /\ UNCHANGED <<cfg, active, fs, dbFormat, run, cv, eng, hist>>

\* open with a key, lines 132-160, called by load.
LoadGet(p) ==
    /\ pc[p] = "l_get"
    /\ LoadOpened(p, OpenRest(fs, lsrc[p], cfg.key, lops[p], "lfp", "lgz"))
    /\ UNCHANGED <<cfg, active, fs, dbFormat, run, cv, eng, hist>>

\* The result of m.Load(false) ignored.
EngineNeverInUse(formatted) == FALSE

\* load, line 231: m.Load(false) returned a format (err == nil).
EngineInUse(formatted) == formatted

\* load, line 227: the deferred r.Close of the stream load opened itself.
LoadDeferred(hs, r) == IF Len(cfg.args) = 1 THEN hs ELSE ReaderClose(hs, r)

\* load, lines 230-233: the client is created and the engine asked for its
\* format; a formatted engine ends the command.
EngineCheck(p) ==
    /\ pc[p] = "engine"
    /\ IF EngineInUse(dbFormat)
       THEN /\ eng' = [eng EXCEPT ![p] = [@ EXCEPT !.client = TRUE, !.probe = "formatted"]]
            /\ out' = [out EXCEPT ![p] = "dbInUse"]
            /\ hnd' = [hnd EXCEPT ![p] = LoadDeferred(@, rd[p])]
            /\ pc' = [pc EXCEPT ![p] = "done"]
       ELSE /\ eng' = [eng EXCEPT ![p] = [@ EXCEPT !.client = TRUE,
                          !.probe = IF dbFormat THEN "formatted" ELSE "empty"]]
            /\ pc' = [pc EXCEPT ![p] = "loader"]
            /\ UNCHANGED <<out, hnd>>
    /\ UNCHANGED <<cfg, active, fs, dbFormat, run, lsrc, cv, rd, lops, hist>>

\* load, lines 248-266, once the loader has read its stream: it fills the
\* engine when the bytes are a plain dump, m.Load(true) then finds the format;
\* load returns and the deferred r.Close runs.
LoadReturn(p, r, bytes, readOk) ==
    LET good == readOk /\ bytes = Plain
    IN /\ rd' = [rd EXCEPT ![p] = r]
       /\ dbFormat' = (dbFormat \/ good)
       /\ out' = [out EXCEPT ![p] = IF good THEN "ok" ELSE "loadErr"]
       /\ hnd' = [hnd EXCEPT ![p] = LoadDeferred(@, r)]
       /\ pc' = [pc EXCEPT ![p] = "done"]

\* load, lines 235-256: LoadMetaV2 or LoadMeta is called and reads the first
\* chunk of the stream.
LoadMetaRead1(p) ==
    /\ pc[p] = "loader"
    /\ eng' = [eng EXCEPT ![p].loader = IF cfg.binary THEN "LoadMetaV2" ELSE "LoadMeta"]
    /\ LET first == Read1(rd[p], RawNow(fs, rd[p]))
       IN IF first.st = "err"
          THEN LoadReturn(p, [rd[p] EXCEPT !.readErr = TRUE], Empty, FALSE)
          ELSE IF first.st = "eof"
          THEN LoadReturn(p, rd[p], Empty, TRUE)
          ELSE /\ rd' = [rd EXCEPT ![p].got = first]
               /\ pc' = [pc EXCEPT ![p] = "loader2"]
               /\ UNCHANGED <<dbFormat, out, hnd>>
    /\ UNCHANGED <<cfg, active, fs, run, lsrc, cv, lops, hist>>

\* load, lines 248-266: the loader reads the rest of the stream and ends.
LoadMetaRead2(p) ==
    /\ pc[p] = "loader2"
    /\ LET second == Read2(rd[p], RawNow(fs, rd[p]))
       IN LoadReturn(p, [rd[p] EXCEPT !.readErr = (second = "err")],
                     Assembled(rd[p].got, second), second # "err")
    /\ UNCHANGED <<cfg, active, fs, run, lsrc, cv, lops, eng, hist>>

\* The command has returned; the same command line is run again.
Restart(p) ==
    /\ pc[p] = "done"
    /\ run[p] < MaxRuns
    /\ run' = [run EXCEPT ![p] = @ + 1]
    /\ hist' = [hist EXCEPT ![p] = Append(@, [kind |-> cv[p].kind, path |-> cv[p].path,
                                                   nPath |-> cv[p].nPath])]
    /\ pc' = [pc EXCEPT ![p] = "init"]
    /\ lsrc' = [lsrc EXCEPT ![p] = <<>>]
    /\ cv' = [cv EXCEPT ![p] = NoConvert]
    /\ rd' = [rd EXCEPT ![p] = NoReader]
    /\ hnd' = [hnd EXCEPT ![p] = NoHandles]
    /\ lops' = [lops EXCEPT ![p] = <<>>]
    /\ eng' = [eng EXCEPT ![p] = NoEngine]
    /\ out' = [out EXCEPT ![p] = ""]
    /\ UNCHANGED <<cfg, active, fs, dbFormat>>

\* The environment: the backup file is removed or made unreadable.
SourceLost ==
    /\ BackupOf(cfg.args) # MetaUri
    /\ Exists(fs, BackupOf(cfg.args))
    /\ fs' = [fs EXCEPT ![BackupOf(cfg.args)] = Absent]
    /\ UNCHANGED <<cfg, active, dbFormat, pc, run, lsrc, cv, rd, hnd, lops, eng, out, hist>>

Step(p) ==
    \/ Start(p)
    \/ ConvertCheck(p)
    \/ ConvertOpen(p)
    \/ ConvertGet(p)
    \/ ConvertCreate(p)
    \/ ConvertCopy1(p)
    \/ ConvertCopy2(p)
    \/ StatBakOpen(p)
    \/ StatBakRead(p)
    \/ LoadOpen(p)
    \/ LoadGet(p)
    \/ EngineCheck(p)
    \/ LoadMetaRead1(p)
    \/ LoadMetaRead2(p)
    \/ Restart(p)

Next == (\E p \in Procs : Step(p)) \/ SourceLost

Spec == Init /\ [][Next]_vars

SpecConc == InitConc /\ [][Next]_vars

\* ---------------------------------------------------------------- claims
\* The path load hands to convert.
ConvertArg == IF cfg.stat THEN ArgsGet(cfg.args, 0) ELSE ArgsGet(cfg.args, 1)

EndsInGzOrZstd(path) == HasSuffix(path, GzSuffix) \/ HasSuffix(path, ZstdSuffix)

\* The path with exactly its trailing .gz or .zstd removed.
WithoutCompressionSuffix(path) ==
    IF HasSuffix(path, GzSuffix) THEN SubSeq(path, 1, Len(path) - Len(GzSuffix))
    ELSE IF HasSuffix(path, ZstdSuffix) THEN SubSeq(path, 1, Len(path) - Len(ZstdSuffix))
    ELSE path

Last(s) == s[Len(s)]

\* convert went past the fast path: it decided to decode.
Decoding(p) == cv[p].kind \in {"panic", "run", "hit", "openErr", "createErr", "copyErr", "ok"}

\* C1: two concurrent materializations of one source never both hold the
\* plain path created and open for writing: the second create fails instead
\* of emptying the file the first is writing.
C1_ExclusiveCreate ==
    \A p, q \in Procs :
        (p # q /\ hnd[p]["w"] = "open" /\ hnd[q]["w"] = "open")
            => cv[p].nPath # cv[q].nPath

\* C2: whenever convert decides to decode, the plain path it checks, creates
\* and returns is the source path with exactly its trailing .gz or .zstd
\* removed and nothing else removed.
C2_PlainPathStripsOnlySuffix ==
    \A p \in Procs :
        Decoding(p) =>
            /\ cv[p].kind # "panic"
            /\ cv[p].nPath = WithoutCompressionSuffix(ConvertArg)

\* C3: once the command has returned, and with it the Close of the reader it
\* held, whether Close returned an error or not, both layers of the reader are
\* closed exactly once (one close when they are the same object).
C3_CloseClosesEveryLayerOnce ==
    \A p \in Procs :
        (pc[p] = "done" /\ rd[p].compressR \in Handles) =>
            /\ hnd[p][rd[p].compressR] = "closed"
            /\ hnd[p][rd[p].encryptR] = "closed"

\* One step of invocation p, as the cache claim sees it: a convert call that
\* finds the plain file, and a call that follows a successful one.
C4Step(p) ==
    /\ (/\ pc[p] = "convert" /\ pc'[p] # "convert"
        /\ ~(cfg.key = NoKey /\ ~EndsInGzOrZstd(lsrc[p]))
        /\ LastIndex(lsrc[p], ".") >= 0
        /\ Exists(fs, NPath(lsrc[p])))
       => /\ cv'[p].kind = "hit"
          /\ cv'[p].path = NPath(lsrc[p])
          /\ cv'[p].err = ""
          /\ cv'[p].ops = <<"exists">>
          /\ cv'[p].oops = <<>>
          /\ out'[p] = ""
          /\ fs' = fs
          /\ hnd'[p] = NoHandles
    /\ (hist'[p] # <<>> /\ Last(hist'[p]).kind = "ok" /\ cv'[p].kind # "none")
       => /\ cv'[p].kind = "hit"
          /\ cv'[p].path = Last(hist'[p]).path
          /\ cv'[p].err = ""

\* C4: when a file exists at the derived plain path, convert returns that
\* path with no error, without opening the source and without creating or
\* writing any file; and after a successful materialization the next call
\* with the same input returns the same path as a cache hit, whatever has
\* become of the source.
C4_CacheHitIdempotent == [][\A p \in Procs : C4Step(p)]_vars

C4_Witness ==
    \E p \in Procs :
        /\ hist[p] # <<>> /\ Last(hist[p]).kind = "ok"
        /\ cv[p].kind = "hit"
        /\ ~Exists(fs, BackupOf(cfg.args))

\* C5: a failed open leaves no plain file; a failed copy leaves the partly
\* written plain file on disk; and the next call for the same source returns
\* that partial file's path as a cache hit, with no error.
C5_FailureOutcomeOnDisk ==
    \A p \in Procs :
        /\ cv[p].kind = "openErr" =>
              /\ ~Exists(fs, cv[p].nPath)
              /\ hnd[p]["w"] = "none"
        /\ cv[p].kind = "copyErr" =>
              /\ fs[cv[p].nPath] \in {Partial, Empty}
              /\ out[p] = "copyErr"
        /\ (hist[p] # <<>> /\ Last(hist[p]).kind = "copyErr" /\ cv[p].kind # "none") =>
              /\ cv[p].kind = "hit"
              /\ cv[p].path = Last(hist[p]).nPath
              /\ cv[p].err = ""
              /\ cv[p].ops = <<"exists">>
              /\ fs[cv[p].path] \in {Partial, Empty}

C5_Witness ==
    \E p \in Procs :
        /\ hist[p] # <<>> /\ Last(hist[p]).kind = "copyErr"
        /\ cv[p].kind = "hit"
        /\ fs[cv[p].path] = Partial
        /\ pc[p] = "done"

\* The steps of open that parse or use the key, build the encryptor, or touch
\* the source.
AfterGuardOps ==
    {"parseKey", "newEncryptor", "stat", "abs", "createStorage", "get", "osOpen",
     "gzipNewReader", "zstdNewReader"}

OpsIn(ops) == {ops[i] : i \in 1..Len(ops)}

\* The key's PEM block carries the ENCRYPTED marker in its Proc-Type header.
KeyMarkedEncrypted == cfg.key # NoKey /\ PemBlock(cfg.key) /\ ProcTypeEncrypted(cfg.key)

\* The marked block also names its cipher in a DEK-Info header.
KeyMarkedWithDekInfo == KeyMarkedEncrypted /\ IsEncryptedPEMBlock(cfg.key)

\* Every call of open made so far, by load itself or by convert, has failed
\* with the passphrase-required error, having taken no step that parses or
\* uses the key, builds the encryptor or touches the source, and no stream is
\* open.
PassphraseErrorFirst(p) ==
    /\ lops[p] # <<>> =>
          /\ out[p] = "passphraseRequired"
          /\ pc[p] = "done"
          /\ OpsIn(lops[p]) \cap AfterGuardOps = {}
    /\ "open" \in OpsIn(cv[p].ops) =>
          /\ cv[p].kind = "openErr"
          /\ cv[p].err = "passphraseRequired"
          /\ out[p] = "passphraseRequired"
          /\ pc[p] = "done"
          /\ cv[p].oops # <<>>
          /\ OpsIn(cv[p].oops) \cap AfterGuardOps = {}
    /\ \A h \in {"cfp", "cgz", "w", "lfp", "lgz"} : hnd[p][h] = "none"

C7_FastPathTouchesNothing ==
    \A p \in Procs :
        (cfg.key = NoKey /\ ~EndsInGzOrZstd(ConvertArg) /\ cv[p].kind # "none") =>
            /\ cv[p].kind = "fast"
            /\ cv[p].path = ConvertArg
            /\ cv[p].err = ""
            /\ cv[p].ops = <<>>
            /\ cv[p].oops = <<>>
            /\ \A h \in {"cfp", "cgz", "w"} : hnd[p][h] = "none"

C7_Witness ==
    \E p \in Procs :
        /\ cv[p].kind = "fast"
        /\ cv[p].path = PathBin
        /\ Exists(fs, PathBin)
        /\ pc[p] = "done"

\* C8: a loader is invoked only after the engine reported that it holds no
\* format; an engine that holds a format ends the command with the
\* database-in-use error and no loader; and in binary stat mode no metadata
\* client is created and no loader invoked.
C8_LoadOnlyIntoEmptyEngine ==
    \A p \in Procs :
        /\ eng[p].loader # "none" => eng[p].probe = "empty"
        /\ eng[p].probe = "formatted" =>
              /\ eng[p].loader = "none"
              /\ out[p] = "dbInUse"
              /\ pc[p] = "done"
        /\ (cfg.binary /\ cfg.stat) => eng[p] = NoEngine
        /\ (cfg.binary /\ cfg.stat /\ pc[p] = "done") =>
              out[p] \in {"report", "footerErr", "statOpenErr", "panic"}
                  \/ out[p] = cv[p].err

C8_Witness ==
    \E p \in Procs :
        /\ eng[p].loader = "LoadMetaV2"
        /\ eng[p].probe = "empty"
        /\ out[p] = "ok"
        /\ dbFormat

\* C9: when the command has returned, every stream and file it opened has
\* been closed, on error exits too.
C9_EveryStreamReleased ==
    \A p \in Procs :
        pc[p] = "done" => \A h \in Handles : hnd[p][h] # "open"

\* C10: on the binary load path, once convert has returned a plain path, the
\* stream handed to the loader reads that file with no decryption layer and
\* no decompression layer.
C10_NoSecondTransform ==
    \A p \in Procs :
        (/\ cfg.binary /\ ~cfg.stat /\ Len(cfg.args) = 2
         /\ cv[p].kind \in {"hit", "ok"}
         /\ eng[p].loader # "none")
            => ~rd[p].enc /\ rd[p].comp = "none"

====
